---- MODULE Spec2Model ----
(***************************************************************************)
(* Model of the WebDriver command-to-request translation of thirtyfour:    *)
(* By::get_w3c_selector and Command::format_request (common/command.rs)    *)
(* and build_headers (common/connection_common.rs).                        *)
(*                                                                         *)
(* The functions are pure.  The state is the last call made (function and  *)
(* arguments) and the value it returned; each action draws the arguments   *)
(* from bounded sets and applies the function.                             *)
(*                                                                         *)
(* A Rust String is a TLA+ string and format! is \o.  Where the code looks *)
(* at single characters (TypingData, the credentials fed to base64) the    *)
(* string is a sequence of one-character strings.  Option<T> is <<>> for   *)
(* None and <<v>> for Some(v).                                             *)
(***************************************************************************)
EXTENDS Integers, Sequences, FiniteSets, TLC

VARIABLES call, result

vars == <<call, result>>

(***************************************************************************)
(* Bounds of the model.                                                    *)
(***************************************************************************)
MaxFrame == 2

MaxKeys == 2

MaxCred == 1

(***************************************************************************)
(* serde_json::Value, as built by the json! macro.                         *)
(***************************************************************************)
JNull == [type |-> "null"]

JNumber(n) == [type |-> "number", n |-> n]

JString(s) == [type |-> "string", s |-> s]

JArray(items) == [type |-> "array", items |-> items]

JObject(members) == [type |-> "object", members |-> members]

\* json!({})
EmptyObject == JObject(<<>>)

(***************************************************************************)
(* Concatenation of a sequence of one-character strings into one string    *)
(* (Iterator<char>::collect::<String>, and {} of a String in format!).     *)
(***************************************************************************)
RECURSIVE Collect(_)
Collect(chars) ==
    IF chars = <<>> THEN "" ELSE Head(chars) \o Collect(Tail(chars))

\* All sequences over S of length at most n.
SeqsUpTo(S, n) == UNION {[1..k -> S] : k \in 0..n}

(***************************************************************************)
(* Value types of common/types.rs and common/keys.rs.  Their definitions   *)
(* are outside the translated files; they are opaque string handles whose  *)
(* Display prints the handle.                                              *)
(***************************************************************************)
SessionId_to_string(session_id) == session_id.id

ElementId_to_string(element_id) == element_id.id

WindowHandle_to_string(window_handle) == window_handle.handle

\* TypingData holds the typed characters; as_vec is the per-character view.
as_vec(typing_data) == typing_data.data

\* TypingData's Display is the concatenation of the characters.
TypingData_to_string(typing_data) == Collect(typing_data.data)

\* json!(Vec<char>): an array of one-character strings.
JChars(chars) == JArray([i \in 1..Len(chars) |-> JString(chars[i])])

\* json!(timeout_configuration): the record itself is the body, unset
\* durations are null.
TimeoutConfiguration_json(tc) ==
    JObject([k \in {"script", "pageLoad", "implicit"} |->
                IF tc[k] = <<>> THEN JNull ELSE JNumber(tc[k][1])])

\* json!(option_rect): unset fields are absent.
OptionRect_json(r) ==
    JObject([k \in {f \in {"x", "y", "width", "height"} : r[f] # <<>>} |->
                JNumber(r[k][1])])

\* json!(cookie)
Cookie_json(cookie) ==
    JObject([name |-> JString(cookie.name), value |-> JString(cookie.value)])

(***************************************************************************)
(* make_w3c_caps (common/capabilities/desiredcapabilities.rs): the W3C     *)
(* form of a capabilities document.  An object is copied under             *)
(* alwaysMatch; a document that is not an object is MalformedCapabilities. *)
(***************************************************************************)
make_w3c_caps(caps) ==
    IF caps.type = "object"
    THEN JObject([firstMatch |-> JArray(<<EmptyObject>>), alwaysMatch |-> caps])
    ELSE [type |-> "MalformedCapabilities"]

(***************************************************************************)
(* command.rs                                                              *)
(***************************************************************************)
MAGIC_ELEMENTID_typo == "element-6066-11e4-a52e-4f735466cecd"

MAGIC_ELEMENTID == "element-6066-11e4-a52e-4f735466cecf"

RequestMethod == {"Get", "Post", "Delete"}

\* RequestData::new
RequestData_new(method, url) == [method |-> method, url |-> url, body |-> <<>>]

\* RequestData::add_body
add_body(self, body) == [self EXCEPT !.body = <<body>>]

Strategies ==
    {"Id", "XPath", "LinkText", "PartialLinkText", "Name", "Tag", "ClassName", "Css"}

\* get_w3c_selector with By::ClassName passed through without the dot.
get_w3c_selector_nodot(by) ==
    CASE by.strategy = "Id" -> <<"css selector", "[id=\"" \o by.x \o "\"]">>
      [] by.strategy = "XPath" -> <<"xpath", by.x>>
      [] by.strategy = "LinkText" -> <<"link text", by.x>>
      [] by.strategy = "PartialLinkText" -> <<"partial link text", by.x>>
      [] by.strategy = "Name" -> <<"css selector", "[name=\"" \o by.x \o "\"]">>
      [] by.strategy = "Tag" -> <<"css selector", by.x>>
      [] by.strategy = "ClassName" -> <<"css selector", by.x>>
      [] by.strategy = "Css" -> <<"css selector", by.x>>

get_w3c_selector(by) ==
    CASE by.strategy = "Id" -> <<"css selector", "[id=\"" \o by.x \o "\"]">>
      [] by.strategy = "XPath" -> <<"xpath", by.x>>
      [] by.strategy = "LinkText" -> <<"link text", by.x>>
      [] by.strategy = "PartialLinkText" -> <<"partial link text", by.x>>
      [] by.strategy = "Name" -> <<"css selector", "[name=\"" \o by.x \o "\"]">>
      [] by.strategy = "Tag" -> <<"css selector", by.x>>
      [] by.strategy = "ClassName" -> <<"css selector", "." \o by.x>>
      [] by.strategy = "Css" -> <<"css selector", by.x>>

\* "/session/{}" with the session id
SessionUrl(session_id) == "/session/" \o SessionId_to_string(session_id)

\* "/session/{}/element/{}" with the session id and the element id
ElementUrl(session_id, element_id) ==
    SessionUrl(session_id) \o "/element/" \o ElementId_to_string(element_id)

\* json!({"using": selector, "value": value})
SelectorBody(selector, value) ==
    JObject([using |-> JString(selector), value |-> JString(value)])

(***************************************************************************)
(* The arms of the match in Command::format_request, one definition each,  *)
(* named after the variant.                                                *)
(***************************************************************************)
\* NewSession giving the negotiator's failure back instead of a request.
NewSession_propagate(caps) ==
    LET w3c_caps == make_w3c_caps(caps)
    IN  IF w3c_caps.type = "MalformedCapabilities"
        THEN [method |-> "Err", url |-> "MalformedCapabilities", body |-> <<>>]
        ELSE add_body(RequestData_new("Post", "/session"),
                      JObject([capabilities |-> w3c_caps,
                               desiredCapabilities |-> caps]))

NewSession(caps) ==
    LET w3c_caps == make_w3c_caps(caps)
    IN  add_body(RequestData_new("Post", "/session"),
                 JObject([capabilities |-> w3c_caps,
                          desiredCapabilities |-> caps]))

DeleteSession(session_id) == RequestData_new("Delete", SessionUrl(session_id))

Status == RequestData_new("Get", "/status")

GetTimeouts(session_id) ==
    RequestData_new("Get", SessionUrl(session_id) \o "/timeouts")

SetTimeouts(session_id, timeout_configuration) ==
    add_body(RequestData_new("Post", SessionUrl(session_id) \o "/timeouts"),
             TimeoutConfiguration_json(timeout_configuration))

NavigateTo(session_id, url) ==
    add_body(RequestData_new("Post", SessionUrl(session_id) \o "/url"),
             JObject([url |-> JString(url)]))

GetCurrentUrl(session_id) ==
    RequestData_new("Get", SessionUrl(session_id) \o "/url")

\* Back built without add_body.
Back_nobody(session_id) ==
    RequestData_new("Post", SessionUrl(session_id) \o "/back")

Back(session_id) ==
    add_body(RequestData_new("Post", SessionUrl(session_id) \o "/back"),
             EmptyObject)

Forward(session_id) ==
    add_body(RequestData_new("Post", SessionUrl(session_id) \o "/forward"),
             EmptyObject)

Refresh(session_id) ==
    add_body(RequestData_new("Post", SessionUrl(session_id) \o "/refresh"),
             EmptyObject)

GetTitle(session_id) ==
    RequestData_new("Get", SessionUrl(session_id) \o "/title")

GetWindowHandle(session_id) ==
    RequestData_new("Get", SessionUrl(session_id) \o "/window")

CloseWindow(session_id) ==
    RequestData_new("Delete", SessionUrl(session_id) \o "/window")

SwitchToWindow(session_id, window_handle) ==
    add_body(RequestData_new("Post", SessionUrl(session_id) \o "/window"),
             JObject([handle |-> JString(WindowHandle_to_string(window_handle))]))

GetWindowHandles(session_id) ==
    RequestData_new("Get", SessionUrl(session_id) \o "/window/handles")

SwitchToFrameDefault(session_id) ==
    add_body(RequestData_new("Post", SessionUrl(session_id) \o "/frame"),
             JObject([id |-> JNull]))

SwitchToFrameNumber(session_id, frame_number) ==
    add_body(RequestData_new("Post", SessionUrl(session_id) \o "/frame"),
             JObject([id |-> JNumber(frame_number)]))

SwitchToFrameElement(session_id, element_id) ==
    add_body(RequestData_new("Post", SessionUrl(session_id) \o "/frame"),
             JObject([id |-> JObject(
                 ("ELEMENT" :> JString(ElementId_to_string(element_id)))
                 @@ (MAGIC_ELEMENTID :> JString(ElementId_to_string(element_id))))]))

SwitchToParentFrame_nobody(session_id) ==
    RequestData_new("Post", SessionUrl(session_id) \o "/frame/parent")

SwitchToParentFrame(session_id) ==
    add_body(RequestData_new("Post", SessionUrl(session_id) \o "/frame/parent"),
             EmptyObject)

GetWindowRect(session_id) ==
    RequestData_new("Get", SessionUrl(session_id) \o "/window/rect")

SetWindowRect(session_id, option_rect) ==
    add_body(RequestData_new("Post", SessionUrl(session_id) \o "/window/rect"),
             OptionRect_json(option_rect))

MaximizeWindow(session_id) ==
    add_body(RequestData_new("Post", SessionUrl(session_id) \o "/window/maximize"),
             EmptyObject)

MinimizeWindow(session_id) ==
    add_body(RequestData_new("Post", SessionUrl(session_id) \o "/window/minimize"),
             EmptyObject)

FullscreenWindow(session_id) ==
    add_body(RequestData_new("Post", SessionUrl(session_id) \o "/window/fullscreen"),
             EmptyObject)

GetActiveElement(session_id) ==
    RequestData_new("Get", SessionUrl(session_id) \o "/element/active")

FindElement(session_id, by) ==
    LET sv == get_w3c_selector(by)
    IN  add_body(RequestData_new("Post", SessionUrl(session_id) \o "/element"),
                 SelectorBody(sv[1], sv[2]))

FindElements(session_id, by) ==
    LET sv == get_w3c_selector(by)
    IN  add_body(RequestData_new("Post", SessionUrl(session_id) \o "/elements"),
                 SelectorBody(sv[1], sv[2]))

FindElementFromElement(session_id, element_id, by) ==
    LET sv == get_w3c_selector(by)
    IN  add_body(RequestData_new("Post",
                     ElementUrl(session_id, element_id) \o "/element"),
                 SelectorBody(sv[1], sv[2]))

\* FindElementsFromElement sent to the singular endpoint.
FindElementsFromElement_singular(session_id, element_id, by) ==
    LET sv == get_w3c_selector(by)
    IN  add_body(RequestData_new("Post",
                     ElementUrl(session_id, element_id) \o "/element"),
                 SelectorBody(sv[1], sv[2]))

FindElementsFromElement(session_id, element_id, by) ==
    LET sv == get_w3c_selector(by)
    IN  add_body(RequestData_new("Post",
                     ElementUrl(session_id, element_id) \o "/elements"),
                 SelectorBody(sv[1], sv[2]))

IsElementSelected(session_id, element_id) ==
    RequestData_new("Get", ElementUrl(session_id, element_id) \o "/selected")

GetElementAttribute(session_id, element_id, attribute_name) ==
    RequestData_new("Get",
        ElementUrl(session_id, element_id) \o "/attribute/" \o attribute_name)

GetElementProperty(session_id, element_id, property_name) ==
    RequestData_new("Get",
        ElementUrl(session_id, element_id) \o "/proprty/" \o property_name)

GetElementCSSValue(session_id, element_id, property_name) ==
    RequestData_new("Get",
        ElementUrl(session_id, element_id) \o "/css/" \o property_name)

GetElementText(session_id, element_id) ==
    RequestData_new("Get", ElementUrl(session_id, element_id) \o "/text")

GetElementTagName(session_id, element_id) ==
    RequestData_new("Get", ElementUrl(session_id, element_id) \o "/name")

GetElementRect(session_id, element_id) ==
    RequestData_new("Get", ElementUrl(session_id, element_id) \o "/rect")

IsElementEnabled(session_id, element_id) ==
    RequestData_new("Get", ElementUrl(session_id, element_id) \o "/enabled")

ElementClick(session_id, element_id) ==
    add_body(RequestData_new("Post", ElementUrl(session_id, element_id) \o "/click"),
             EmptyObject)

ElementClear(session_id, element_id) ==
    add_body(RequestData_new("Post", ElementUrl(session_id, element_id) \o "/clear"),
             EmptyObject)

ElementSendKeys(session_id, element_id, typing_data) ==
    add_body(RequestData_new("Post", ElementUrl(session_id, element_id) \o "/value"),
             JObject([text |-> JString(TypingData_to_string(typing_data)),
                      value |-> JChars(as_vec(typing_data))]))

GetPageSource(session_id) ==
    RequestData_new("Get", SessionUrl(session_id) \o "/source")

ExecuteScript(session_id, script, args) ==
    add_body(RequestData_new("Post", SessionUrl(session_id) \o "/execute/sync"),
             JObject([script |-> JString(script), args |-> JArray(args)]))

ExecuteAsyncScript(session_id, script, args) ==
    add_body(RequestData_new("Post", SessionUrl(session_id) \o "/execute/async"),
             JObject([script |-> JString(script), args |-> JArray(args)]))

GetAllCookies(session_id) ==
    RequestData_new("Get", SessionUrl(session_id) \o "/cookie")

GetNamedCookie(session_id, cookie_name) ==
    RequestData_new("Get", SessionUrl(session_id) \o "/cookie/" \o cookie_name)

AddCookie(session_id, cookie) ==
    add_body(RequestData_new("Post", SessionUrl(session_id) \o "/cookie"),
             JObject([cookie |-> Cookie_json(cookie)]))

\* DeleteCookie sent with an empty object body.
DeleteCookie_withbody(session_id, cookie_name) ==
    add_body(RequestData_new("Delete",
                 SessionUrl(session_id) \o "/cookie/" \o cookie_name),
             EmptyObject)

DeleteCookie(session_id, cookie_name) ==
    RequestData_new("Delete", SessionUrl(session_id) \o "/cookie/" \o cookie_name)

DeleteAllCookies(session_id) ==
    RequestData_new("Delete", SessionUrl(session_id) \o "/cookie")

PerformActions(session_id, actions) ==
    add_body(RequestData_new("Post", SessionUrl(session_id) \o "/actions"),
             JObject([actions |-> actions]))

ReleaseActions(session_id) ==
    RequestData_new("Delete", SessionUrl(session_id) \o "/actions")

DismissAlert(session_id) ==
    add_body(RequestData_new("Post", SessionUrl(session_id) \o "/alert/dismiss"),
             EmptyObject)

AcceptAlert(session_id) ==
    add_body(RequestData_new("Post", SessionUrl(session_id) \o "/alert/accept"),
             EmptyObject)

GetAlertText(session_id) ==
    RequestData_new("Get", SessionUrl(session_id) \o "/alert/text")

\* SendAlertText sending only the per-character view.
SendAlertText_valueonly(session_id, typing_data) ==
    add_body(RequestData_new("Post", SessionUrl(session_id) \o "/alert/text"),
             JObject([value |-> JChars(as_vec(typing_data))]))

SendAlertText(session_id, typing_data) ==
    add_body(RequestData_new("Post", SessionUrl(session_id) \o "/alert/text"),
             JObject([value |-> JChars(as_vec(typing_data)),
                      text |-> JString(TypingData_to_string(typing_data))]))

TakeScreenshot(session_id) ==
    RequestData_new("Get", SessionUrl(session_id) \o "/screenshot")

TakeElementScreenshot(session_id, element_id) ==
    RequestData_new("Get", ElementUrl(session_id, element_id) \o "/screenshot")

(***************************************************************************)
(* Command::format_request: the match over the variants.                   *)
(***************************************************************************)
format_request(cmd, session_id) ==
    CASE cmd.tag = "NewSession" -> NewSession(cmd.caps)
      [] cmd.tag = "DeleteSession" -> DeleteSession(session_id)
      [] cmd.tag = "Status" -> Status
      [] cmd.tag = "GetTimeouts" -> GetTimeouts(session_id)
      [] cmd.tag = "SetTimeouts" -> SetTimeouts(session_id, cmd.timeout_configuration)
      [] cmd.tag = "NavigateTo" -> NavigateTo(session_id, cmd.url)
      [] cmd.tag = "GetCurrentUrl" -> GetCurrentUrl(session_id)
      [] cmd.tag = "Back" -> Back(session_id)
      [] cmd.tag = "Forward" -> Forward(session_id)
      [] cmd.tag = "Refresh" -> Refresh(session_id)
      [] cmd.tag = "GetTitle" -> GetTitle(session_id)
      [] cmd.tag = "GetWindowHandle" -> GetWindowHandle(session_id)
      [] cmd.tag = "CloseWindow" -> CloseWindow(session_id)
      [] cmd.tag = "SwitchToWindow" -> SwitchToWindow(session_id, cmd.window_handle)
      [] cmd.tag = "GetWindowHandles" -> GetWindowHandles(session_id)
      [] cmd.tag = "SwitchToFrameDefault" -> SwitchToFrameDefault(session_id)
      [] cmd.tag = "SwitchToFrameNumber" ->
            SwitchToFrameNumber(session_id, cmd.frame_number)
      [] cmd.tag = "SwitchToFrameElement" ->
            SwitchToFrameElement(session_id, cmd.element_id)
      [] cmd.tag = "SwitchToParentFrame" -> SwitchToParentFrame(session_id)
      [] cmd.tag = "GetWindowRect" -> GetWindowRect(session_id)
      [] cmd.tag = "SetWindowRect" -> SetWindowRect(session_id, cmd.option_rect)
      [] cmd.tag = "MaximizeWindow" -> MaximizeWindow(session_id)
      [] cmd.tag = "MinimizeWindow" -> MinimizeWindow(session_id)
      [] cmd.tag = "FullscreenWindow" -> FullscreenWindow(session_id)
      [] cmd.tag = "GetActiveElement" -> GetActiveElement(session_id)
      [] cmd.tag = "FindElement" -> FindElement(session_id, cmd.by)
      [] cmd.tag = "FindElements" -> FindElements(session_id, cmd.by)
      [] cmd.tag = "FindElementFromElement" ->
            FindElementFromElement(session_id, cmd.element_id, cmd.by)
      [] cmd.tag = "FindElementsFromElement" ->
            FindElementsFromElement(session_id, cmd.element_id, cmd.by)
      [] cmd.tag = "IsElementSelected" -> IsElementSelected(session_id, cmd.element_id)
      [] cmd.tag = "GetElementAttribute" ->
            GetElementAttribute(session_id, cmd.element_id, cmd.name)
      [] cmd.tag = "GetElementProperty" ->
            GetElementProperty(session_id, cmd.element_id, cmd.name)
      [] cmd.tag = "GetElementCSSValue" ->
            GetElementCSSValue(session_id, cmd.element_id, cmd.name)
      [] cmd.tag = "GetElementText" -> GetElementText(session_id, cmd.element_id)
      [] cmd.tag = "GetElementTagName" -> GetElementTagName(session_id, cmd.element_id)
      [] cmd.tag = "GetElementRect" -> GetElementRect(session_id, cmd.element_id)
      [] cmd.tag = "IsElementEnabled" -> IsElementEnabled(session_id, cmd.element_id)
      [] cmd.tag = "ElementClick" -> ElementClick(session_id, cmd.element_id)
      [] cmd.tag = "ElementClear" -> ElementClear(session_id, cmd.element_id)
      [] cmd.tag = "ElementSendKeys" ->
            ElementSendKeys(session_id, cmd.element_id, cmd.typing_data)
      [] cmd.tag = "GetPageSource" -> GetPageSource(session_id)
      [] cmd.tag = "ExecuteScript" -> ExecuteScript(session_id, cmd.script, cmd.args)
      [] cmd.tag = "ExecuteAsyncScript" ->
            ExecuteAsyncScript(session_id, cmd.script, cmd.args)
      [] cmd.tag = "GetAllCookies" -> GetAllCookies(session_id)
      [] cmd.tag = "GetNamedCookie" -> GetNamedCookie(session_id, cmd.cookie_name)
      [] cmd.tag = "AddCookie" -> AddCookie(session_id, cmd.cookie)
      [] cmd.tag = "DeleteCookie" -> DeleteCookie(session_id, cmd.cookie_name)
      [] cmd.tag = "DeleteAllCookies" -> DeleteAllCookies(session_id)
      [] cmd.tag = "PerformActions" -> PerformActions(session_id, cmd.actions)
      [] cmd.tag = "ReleaseActions" -> ReleaseActions(session_id)
      [] cmd.tag = "DismissAlert" -> DismissAlert(session_id)
      [] cmd.tag = "AcceptAlert" -> AcceptAlert(session_id)
      [] cmd.tag = "GetAlertText" -> GetAlertText(session_id)
      [] cmd.tag = "SendAlertText" -> SendAlertText(session_id, cmd.typing_data)
      [] cmd.tag = "TakeScreenshot" -> TakeScreenshot(session_id)
      [] cmd.tag = "TakeElementScreenshot" ->
            TakeElementScreenshot(session_id, cmd.element_id)

(***************************************************************************)
(* connection_common.rs                                                    *)
(***************************************************************************)
\* The printable ASCII characters, 0x20 to 0x7e, in code order (0x60, the
\* grave accent, is spelled out).
Printable ==
    <<
       " ", "!", "\"", "#", "$", "%", "&", "'", "(", ")", "*", "+", ",", "-", ".", "/",
       "0", "1", "2", "3", "4", "5", "6", "7", "8", "9", ":", ";", "<", "=", ">", "?",
       "@", "A", "B", "C", "D", "E", "F", "G", "H", "I", "J", "K", "L", "M", "N", "O",
       "P", "Q", "R", "S", "T", "U", "V", "W", "X", "Y", "Z", "[", "\\", "]", "^", "_",
       "GRAVE", "a", "b", "c", "d", "e", "f", "g", "h", "i", "j", "k", "l", "m", "n", "o",
       "p", "q", "r", "s", "t", "u", "v", "w", "x", "y", "z", "{", "|", "}", "~"
    >>

\* The byte of an ASCII character.
Ord(c) == 31 + (CHOOSE i \in 1..Len(Printable) : Printable[i] = c)

\* String::as_bytes of an ASCII string
as_bytes(chars) == [i \in 1..Len(chars) |-> Ord(chars[i])]

\* The standard base64 alphabet.
STANDARD_ALPHABET ==
    <<
       "A", "B", "C", "D", "E", "F", "G", "H", "I", "J", "K", "L", "M", "N", "O", "P",
       "Q", "R", "S", "T", "U", "V", "W", "X", "Y", "Z", "a", "b", "c", "d", "e", "f",
       "g", "h", "i", "j", "k", "l", "m", "n", "o", "p", "q", "r", "s", "t", "u", "v",
       "w", "x", "y", "z", "0", "1", "2", "3", "4", "5", "6", "7", "8", "9", "+", "/"
    >>

\* The base64 digit of a 6-bit value.
Digit(v) == STANDARD_ALPHABET[v + 1]

\* base64::encode: standard alphabet, padded with "=".
RECURSIVE encode(_)
encode(bytes) ==
    IF Len(bytes) = 0 THEN ""
    ELSE IF Len(bytes) = 1 THEN
        LET n == bytes[1] * 65536
        IN  Digit(n \div 262144) \o Digit((n \div 4096) % 64) \o "=="
    ELSE IF Len(bytes) = 2 THEN
        LET n == bytes[1] * 65536 + bytes[2] * 256
        IN  Digit(n \div 262144) \o Digit((n \div 4096) % 64)
            \o Digit((n \div 64) % 64) \o "="
    ELSE
        LET n == bytes[1] * 65536 + bytes[2] * 256 + bytes[3]
        IN  Digit(n \div 262144) \o Digit((n \div 4096) % 64)
            \o Digit((n \div 64) % 64) \o Digit(n % 64)
            \o encode(SubSeq(bytes, 4, Len(bytes)))

\* urlparse: the credentials of the server address.  The user information
\* is the part of the authority before "@"; the password is the part of it
\* after ":".
urlparse(remote_server_addr) ==
    IF remote_server_addr.userinfo = <<>>
    THEN [username |-> <<>>, password |-> <<>>]
    ELSE [username |-> <<remote_server_addr.userinfo[1].username>>,
          password |-> remote_server_addr.userinfo[1].password]

\* env!("CARGO_PKG_VERSION"): fixed when the crate is built.
VERSION == "CARGO_PKG_VERSION"

\* HeaderMap::insert
insert(headers, name, value) == (name :> value) @@ headers

\* build_headers giving the Authorization header whenever a username is there.
build_headers_useronly(remote_server_addr) ==
    LET h0 == insert(<<>>, "accept", "application/json")
        h1 == insert(h0, "content-type", "application/json;charset=UTF-8")
        h2 == insert(h1, "user-agent", "thirtyfour/" \o VERSION \o " (rust)")
        parsed_url == urlparse(remote_server_addr)
        h3 == IF parsed_url.username # <<>>
              THEN LET username == parsed_url.username[1]
                       password == IF parsed_url.password = <<>> THEN <<>>
                                   ELSE parsed_url.password[1]
                       base64_string ==
                           encode(as_bytes(username \o <<":">> \o password))
                   IN  insert(h2, "authorization", "Basic " \o base64_string)
              ELSE h2
    IN  [kind |-> "Ok", headers |-> insert(h3, "connection", "keep-alive")]

build_headers(remote_server_addr) ==
    LET h0 == insert(<<>>, "accept", "application/json")
        h1 == insert(h0, "content-type", "application/json;charset=UTF-8")
        h2 == insert(h1, "user-agent", "thirtyfour/" \o VERSION \o " (rust)")
        parsed_url == urlparse(remote_server_addr)
        h3 == IF parsed_url.username # <<>> /\ parsed_url.password # <<>>
              THEN LET username == parsed_url.username[1]
                       password == parsed_url.password[1]
                       base64_string ==
                           encode(as_bytes(username \o <<":">> \o password))
                   IN  insert(h2, "authorization", "Basic " \o base64_string)
              ELSE h2
    IN  [kind |-> "Ok", headers |-> insert(h3, "connection", "keep-alive")]

(***************************************************************************)
(* The arguments the calls are made with.                                  *)
(***************************************************************************)
SessionIds == {[id |-> "abc123"], [id |-> "s2"]}

ElementIds == {[id |-> "e1"], [id |-> "e2"]}

WindowHandles == {[handle |-> "w1"]}

Targets == {"x", "#login", "//x"}

Bys == [strategy : Strategies, x : Targets]

Names == {"href", "color"}

KeyChars == {"a", "b"}

TypingDatas == [data : SeqsUpTo(KeyChars, MaxKeys)]

FrameNumbers == 0..MaxFrame

CapsDocuments ==
    { JObject([browserName |-> JString("firefox")]),
      EmptyObject,
      JNull,
      JString("firefox"),
      JArray(<<JString("firefox")>>),
      JNumber(1) }

TimeoutConfigurations ==
    { [script |-> <<>>, pageLoad |-> <<>>, implicit |-> <<>>],
      [script |-> <<1000>>, pageLoad |-> <<>>, implicit |-> <<0>>] }

OptionRects ==
    { [x |-> <<>>, y |-> <<>>, width |-> <<>>, height |-> <<>>],
      [x |-> <<0>>, y |-> <<0>>, width |-> <<800>>, height |-> <<>>] }

Cookies == {[name |-> "k", value |-> "v"]}

Scripts == {"return 1;"}

ScriptArgs == {<<>>, <<JNumber(1), JString("x")>>}

ActionLists == {JArray(<<>>), JArray(<<JObject([type |-> JString("key")])>>)}

NullaryTags ==
    { "DeleteSession", "Status", "GetTimeouts", "GetCurrentUrl", "Back", "Forward",
      "Refresh", "GetTitle", "GetWindowHandle", "CloseWindow", "GetWindowHandles",
      "SwitchToFrameDefault", "SwitchToParentFrame", "GetWindowRect",
      "MaximizeWindow", "MinimizeWindow", "FullscreenWindow", "GetActiveElement",
      "GetPageSource", "GetAllCookies", "DeleteAllCookies", "ReleaseActions",
      "DismissAlert", "AcceptAlert", "GetAlertText", "TakeScreenshot" }

ElementTags ==
    { "SwitchToFrameElement", "IsElementSelected", "GetElementText",
      "GetElementTagName", "GetElementRect", "IsElementEnabled", "ElementClick",
      "ElementClear", "TakeElementScreenshot" }

\* The values of the Command enum.
Commands ==
    [tag : {"NewSession"}, caps : CapsDocuments]
    \cup [tag : NullaryTags]
    \cup [tag : ElementTags, element_id : ElementIds]
    \cup [tag : {"SetTimeouts"}, timeout_configuration : TimeoutConfigurations]
    \cup [tag : {"NavigateTo"}, url : {"http://example.com/"}]
    \cup [tag : {"SwitchToWindow"}, window_handle : WindowHandles]
    \cup [tag : {"SwitchToFrameNumber"}, frame_number : FrameNumbers]
    \cup [tag : {"SetWindowRect"}, option_rect : OptionRects]
    \cup [tag : {"FindElement", "FindElements"}, by : Bys]
    \cup [tag : {"FindElementFromElement", "FindElementsFromElement"},
          element_id : ElementIds, by : Bys]
    \cup [tag : {"GetElementAttribute", "GetElementProperty", "GetElementCSSValue"},
          element_id : ElementIds, name : Names]
    \cup [tag : {"ElementSendKeys"}, element_id : ElementIds,
          typing_data : TypingDatas]
    \cup [tag : {"ExecuteScript", "ExecuteAsyncScript"}, script : Scripts,
          args : ScriptArgs]
    \cup [tag : {"GetNamedCookie", "DeleteCookie"}, cookie_name : Names]
    \cup [tag : {"AddCookie"}, cookie : Cookies]
    \cup [tag : {"PerformActions"}, actions : ActionLists]
    \cup [tag : {"SendAlertText"}, typing_data : TypingDatas]

CredChars == {"u", "p", "Z"}

\* Usernames and passwords; both are non-empty.
Credentials ==
    (SeqsUpTo(CredChars, MaxCred) \ {<<>>})
    \cup {<<"u", "s", "e", "r">>, <<"p", "a", "s", "s">>, <<"a", "b">>}

\* Server addresses, by their parts: http://[username[:password]@]hostname
ServerAddrs ==
    [userinfo : {<<>>}, hostname : {"localhost:4444"}]
    \cup [userinfo : {<<ui>> : ui \in [username : Credentials,
                                        password : {<<>>} \cup
                                                   {<<p>> : p \in Credentials}]},
          hostname : {"localhost:4444"}]

(***************************************************************************)
(* The state machine: a call of one of the three functions.                *)
(***************************************************************************)
Init ==
    /\ call = [fn |-> "none"]
    /\ result = <<>>

CallGetW3cSelector ==
    \E by \in Bys :
        /\ call' = [fn |-> "get_w3c_selector", by |-> by]
        /\ result' = get_w3c_selector(by)

CallFormatRequest ==
    \E cmd \in Commands, session_id \in SessionIds :
        /\ call' = [fn |-> "format_request", command |-> cmd,
                    session_id |-> session_id]
        /\ result' = format_request(cmd, session_id)

CallBuildHeaders ==
    \E remote_server_addr \in ServerAddrs :
        /\ call' = [fn |-> "build_headers",
                    remote_server_addr |-> remote_server_addr]
        /\ result' = build_headers(remote_server_addr)

Next == CallGetW3cSelector \/ CallFormatRequest \/ CallBuildHeaders

Spec == Init /\ [][Next]_vars

TypeOK ==
    /\ call.fn \in {"none", "get_w3c_selector", "format_request", "build_headers"}
    /\ call.fn = "format_request" =>
          /\ result.method \in RequestMethod
          /\ Len(result.body) <= 1

(***************************************************************************)
(* Properties.                                                             *)
(***************************************************************************)
IsFormatRequest == call.fn = "format_request"

\* The session id the request was built for, as text.
Sid == call.session_id.id

NoPayloadTags ==
    { "Back", "Forward", "Refresh", "MaximizeWindow", "MinimizeWindow",
      "FullscreenWindow", "DismissAlert", "AcceptAlert", "ElementClick",
      "ElementClear" }

\* C1: format_request on a state-changing command with no intrinsic payload
\* (Back, Forward, Refresh, MaximizeWindow, MinimizeWindow, FullscreenWindow,
\* DismissAlert, AcceptAlert, ElementClick, ElementClear) returns a POST
\* request whose body is present and is the empty JSON object.
C1_EmptyObjectBody ==
    (IsFormatRequest /\ call.command.tag \in NoPayloadTags) =>
        /\ result.method = "Post"
        /\ result.body = <<[type |-> "object", members |-> <<>>]>>

C1_Witness ==
    /\ IsFormatRequest
    /\ call.command = [tag |-> "Back"]
    /\ Sid = "abc123"
    /\ result = [method |-> "Post", url |-> "/session/abc123/back",
                 body |-> <<[type |-> "object", members |-> <<>>]>>]

\* C2: the three frame-switch commands are POSTs to /session/{sid}/frame
\* whose body has the single key id: null for SwitchToFrameDefault, the
\* number n for SwitchToFrameNumber(n), and for SwitchToFrameElement(e) an
\* object with exactly the keys ELEMENT and
\* element-6066-11e4-a52e-4f735466cecf, both holding the string e.
C2_FrameSwitch ==
    (IsFormatRequest /\ call.command.tag \in
        {"SwitchToFrameDefault", "SwitchToFrameNumber", "SwitchToFrameElement"}) =>
        /\ result.method = "Post"
        /\ result.url = "/session/" \o Sid \o "/frame"
        /\ Len(result.body) = 1
        /\ result.body[1].type = "object"
        /\ DOMAIN result.body[1].members = {"id"}
        /\ LET id == result.body[1].members["id"]
           IN  CASE call.command.tag = "SwitchToFrameDefault" ->
                        id = [type |-> "null"]
                 [] call.command.tag = "SwitchToFrameNumber" ->
                        id = [type |-> "number", n |-> call.command.frame_number]
                 [] call.command.tag = "SwitchToFrameElement" ->
                        /\ id.type = "object"
                        /\ DOMAIN id.members =
                              {"ELEMENT", "element-6066-11e4-a52e-4f735466cecf"}
                        /\ id.members["ELEMENT"] =
                              [type |-> "string", s |-> call.command.element_id.id]
                        /\ id.members["element-6066-11e4-a52e-4f735466cecf"] =
                              id.members["ELEMENT"]

C2_Witness ==
    /\ IsFormatRequest
    /\ call.command = [tag |-> "SwitchToFrameElement", element_id |-> [id |-> "e1"]]
    /\ result.url = "/session/" \o Sid \o "/frame"
    /\ result.body[1].members["id"].members["ELEMENT"] =
          [type |-> "string", s |-> "e1"]
    /\ result.body[1].members["id"].members["element-6066-11e4-a52e-4f735466cecf"] =
          [type |-> "string", s |-> "e1"]

C4_Selector ==
    (call.fn = "get_w3c_selector") =>
        LET x == call.by.x
            strategy == call.by.strategy
        IN  /\ Len(result) = 2
            /\ strategy = "Id" => result = <<"css selector", "[id=\"" \o x \o "\"]">>
            /\ strategy = "Name" =>
                  result = <<"css selector", "[name=\"" \o x \o "\"]">>
            /\ strategy = "ClassName" => result = <<"css selector", "." \o x>>
            /\ strategy = "Tag" => result = <<"css selector", x>>
            /\ strategy = "Css" => result = <<"css selector", x>>
            /\ strategy = "XPath" => result = <<"xpath", x>>
            /\ strategy = "LinkText" => result = <<"link text", x>>
            /\ strategy = "PartialLinkText" => result = <<"partial link text", x>>
            /\ call.by = [strategy |-> "Id", x |-> "x"] =>
                  result = <<"css selector", "[id=\"x\"]">>
            /\ call.by = [strategy |-> "XPath", x |-> "//x"] =>
                  result = <<"xpath", "//x">>

C4_Witness ==
    /\ call.fn = "get_w3c_selector"
    /\ call.by = [strategy |-> "ClassName", x |-> "x"]
    /\ result = <<"css selector", ".x">>

FindTags ==
    {"FindElement", "FindElements", "FindElementFromElement",
     "FindElementsFromElement"}

\* C5: the four find commands are POSTs with body {"using": u, "value": v},
\* (u, v) the pair get_w3c_selector returns for the locator; the URL is
\* /session/{sid}/element for FindElement, /session/{sid}/elements for
\* FindElements, /session/{sid}/element/{e}/element for
\* FindElementFromElement(e) and /session/{sid}/element/{e}/elements for
\* FindElementsFromElement(e).
C5_Find ==
    (IsFormatRequest /\ call.command.tag \in FindTags) =>
        LET uv == get_w3c_selector(call.command.by)
            tag == call.command.tag
        IN  /\ result.method = "Post"
            /\ result.body =
                  <<[type |-> "object",
                     members |-> [using |-> [type |-> "string", s |-> uv[1]],
                                  value |-> [type |-> "string", s |-> uv[2]]]]>>
            /\ tag = "FindElement" =>
                  result.url = "/session/" \o Sid \o "/element"
            /\ tag = "FindElements" =>
                  result.url = "/session/" \o Sid \o "/elements"
            /\ tag = "FindElementFromElement" =>
                  result.url = "/session/" \o Sid \o "/element/"
                               \o call.command.element_id.id \o "/element"
            /\ tag = "FindElementsFromElement" =>
                  result.url = "/session/" \o Sid \o "/element/"
                               \o call.command.element_id.id \o "/elements"

C5_Witness ==
    /\ IsFormatRequest
    /\ call.command = [tag |-> "FindElement", by |-> [strategy |-> "Css", x |-> "#login"]]
    /\ Sid = "abc123"
    /\ result = [method |-> "Post", url |-> "/session/abc123/element",
                 body |-> <<[type |-> "object",
                             members |-> [using |-> [type |-> "string",
                                                     s |-> "css selector"],
                                          value |-> [type |-> "string",
                                                     s |-> "#login"]]]>>]

DeletionTags ==
    {"DeleteSession", "DeleteCookie", "DeleteAllCookies", "ReleaseActions",
     "CloseWindow"}

\* C6: DeleteSession, DeleteCookie, DeleteAllCookies, ReleaseActions and
\* CloseWindow produce method DELETE and no body, no other command produces
\* DELETE, and DeleteAllCookies on session s is
\* (DELETE, /session/{s}/cookie, no body).
C6_Deletions ==
    IsFormatRequest =>
        /\ result.method = "Delete" <=> call.command.tag \in DeletionTags
        /\ call.command.tag \in DeletionTags => result.body = <<>>
        /\ call.command.tag = "DeleteAllCookies" =>
              result = [method |-> "Delete",
                        url |-> "/session/" \o Sid \o "/cookie",
                        body |-> <<>>]

C6_Witness ==
    /\ IsFormatRequest
    /\ call.command = [tag |-> "DeleteAllCookies"]
    /\ Sid = "abc123"
    /\ result = [method |-> "Delete", url |-> "/session/abc123/cookie",
                 body |-> <<>>]

\* The strings of a JSON array of strings, joined.
RECURSIVE JoinStrings(_)
JoinStrings(items) ==
    IF items = <<>> THEN "" ELSE Head(items).s \o JoinStrings(Tail(items))

\* C7: ElementSendKeys and SendAlertText produce a POST whose body has both
\* the key text, a string, and the key value, an array with one
\* one-character string per typed character; joining the entries of value
\* gives text.
C7_SendKeys ==
    (IsFormatRequest /\ call.command.tag \in {"ElementSendKeys", "SendAlertText"}) =>
        /\ result.method = "Post"
        /\ Len(result.body) = 1
        /\ result.body[1].type = "object"
        /\ {"text", "value"} \subseteq DOMAIN result.body[1].members
        /\ LET text == result.body[1].members["text"]
               value == result.body[1].members["value"]
               data == call.command.typing_data.data
           IN  /\ text.type = "string"
               /\ value.type = "array"
               /\ Len(value.items) = Len(data)
               /\ \A i \in 1..Len(data) :
                     value.items[i] = [type |-> "string", s |-> data[i]]
               /\ JoinStrings(value.items) = text.s

C7_Witness ==
    /\ IsFormatRequest
    /\ call.command.tag = "SendAlertText"
    /\ call.command.typing_data.data = <<"a", "b">>
    /\ result.body[1].members["text"] = [type |-> "string", s |-> "ab"]
    /\ result.body[1].members["value"] =
          [type |-> "array", items |-> <<[type |-> "string", s |-> "a"],
                                         [type |-> "string", s |-> "b"]>>]

\* C8: GetElementAttribute, GetElementProperty and GetElementCSSValue with
\* element e and name n produce a GET with no body and URL
\* /session/{sid}/element/{e}/{segment}/{n}, the segment being attribute,
\* property and css respectively.
C8_LookupSegments ==
    (IsFormatRequest /\ call.command.tag \in
        {"GetElementAttribute", "GetElementProperty", "GetElementCSSValue"}) =>
        LET segment == CASE call.command.tag = "GetElementAttribute" -> "attribute"
                         [] call.command.tag = "GetElementProperty" -> "property"
                         [] call.command.tag = "GetElementCSSValue" -> "css"
        IN  result = [method |-> "Get",
                      url |-> "/session/" \o Sid \o "/element/"
                              \o call.command.element_id.id \o "/" \o segment
                              \o "/" \o call.command.name,
                      body |-> <<>>]

\* C9: build_headers always sets Accept, Content-Type, User-Agent and
\* Connection: keep-alive, and sets Authorization, to "Basic " and the base64
\* of username:password, exactly when the server address has both a username
\* and a password; no other header is set.
C9_Headers ==
    (call.fn = "build_headers") =>
        LET userinfo == call.remote_server_addr.userinfo
            both == userinfo # <<>> /\ userinfo[1].password # <<>>
        IN  /\ result.kind = "Ok"
            /\ {"accept", "content-type", "user-agent", "connection"}
                  \subseteq DOMAIN result.headers
            /\ DOMAIN result.headers \subseteq
                  {"accept", "content-type", "user-agent", "connection",
                   "authorization"}
            /\ result.headers["accept"] = "application/json"
            /\ result.headers["content-type"] = "application/json;charset=UTF-8"
            /\ result.headers["user-agent"] = "thirtyfour/" \o VERSION \o " (rust)"
            /\ result.headers["connection"] = "keep-alive"
            /\ "authorization" \in DOMAIN result.headers <=> both
            /\ both =>
                  result.headers["authorization"] =
                      "Basic " \o encode(as_bytes(userinfo[1].username \o <<":">>
                                                  \o userinfo[1].password[1]))
            /\ (both /\ userinfo[1].username = <<"u">>
                     /\ userinfo[1].password = <<<<"p">>>>) =>
                  result.headers["authorization"] = "Basic dTpw"
            /\ (both /\ userinfo[1].username = <<"a", "b">>
                     /\ userinfo[1].password = <<<<"a", "b">>>>) =>
                  result.headers["authorization"] = "Basic YWI6YWI="
            /\ (both /\ userinfo[1].username = <<"a", "b">>
                     /\ userinfo[1].password = <<<<"p">>>>) =>
                  result.headers["authorization"] = "Basic YWI6cA=="

C9_Witness ==
    /\ call.fn = "build_headers"
    /\ call.remote_server_addr.userinfo =
          <<[username |-> <<"u", "s", "e", "r">>,
             password |-> <<<<"p", "a", "s", "s">>>>]>>
    /\ result.headers["authorization"] = "Basic dXNlcjpwYXNz"
    /\ result.headers["connection"] = "keep-alive"

\* C10: the request format_request returns has a body exactly when its
\* method is POST: GET and DELETE requests have none, POST requests carry a
\* JSON value.
C10_BodyIffPost ==
    IsFormatRequest =>
        /\ result.method \in {"Get", "Post", "Delete"}
        /\ result.body # <<>> <=> result.method = "Post"
        /\ result.body # <<>> =>
              result.body[1].type \in
                  {"null", "number", "string", "array", "object"}

C10_Witness ==
    /\ IsFormatRequest
    /\ call.command = [tag |-> "SwitchToParentFrame"]
    /\ result.method = "Post"
    /\ result.body = <<[type |-> "object", members |-> <<>>]>>

====
